---- MODULE Spec2Model ----
(***************************************************************************)
(* WORK-NET meeting planner (src/app.py): the suitable-meeting-time sweep  *)
(* find_suitable_meeting_times, the month grid get_month_matrix and the    *)
(* calendar heatmap loop that classifies and chunks the grid's days.       *)
(***************************************************************************)
EXTENDS Integers, Sequences, FiniteSets, TLC

\* ------------------------------------------------------------------ bounds
\* longest list of zones passed to find_suitable_meeting_times
MaxZones == 2
\* number of consecutive years get_month_matrix is called with
NumYears == 4

\* first year of the holiday table (public_holidays_2025_2026.csv)
FirstYear == 2025

Years == FirstYear .. (FirstYear + NumYears - 1)

\* --------------------------------------------------- calendar arithmetic
\* datetime.date(y, m, d) is the record [year, month, day]
Date(y, m, d) == [year |-> y, month |-> m, day |-> d]

isleap(y) == (y % 4 = 0) /\ ((y % 100 # 0) \/ (y % 400 = 0))

mdays == <<31, 28, 31, 30, 31, 30, 31, 31, 30, 31, 30, 31>>

\* calendar._monthlen
monthlen(y, m) == mdays[m] + (IF m = 2 /\ isleap(y) THEN 1 ELSE 0)

RECURSIVE days_before_month(_, _)
days_before_month(y, m) ==
    IF m = 1 THEN 0 ELSE days_before_month(y, m - 1) + monthlen(y, m - 1)

\* datetime.date.toordinal: days since 0001-01-01 (which is ordinal 1)
toordinal(d) ==
    LET y1 == d.year - 1
    IN  y1 * 365 + (y1 \div 4) - (y1 \div 100) + (y1 \div 400)
          + days_before_month(d.year, d.month) + d.day

\* datetime.date.weekday / calendar.weekday: Monday is 0, Sunday is 6
weekday(d) == (toordinal(d) + 6) % 7

\* calendar._prevmonth without the step back to the previous year
prevmonthSameYear(y, m) == IF m = 1 THEN <<y, 12>> ELSE <<y, m - 1>>

\* calendar._prevmonth, calendar._nextmonth
prevmonth(y, m) == IF m = 1 THEN <<y - 1, 12>> ELSE <<y, m - 1>>
nextmonth(y, m) == IF m = 12 THEN <<y + 1, 1>> ELSE <<y, m + 1>>

\* ------------------------------------------------ the timezone database
\* A zone identifier is the sequence of its '/'-separated components, so
\* that tz.split('/')[-1] is its last component.
Paris    == <<"Europe", "Paris">>
NewYork  == <<"America", "New_York">>
Sydney   == <<"Australia", "Sydney">>
Shanghai == <<"Asia", "Shanghai">>
Olympus  == <<"Mars", "Olympus">>

\* identifiers pytz.timezone resolves
KnownZones == {Paris, NewYork, Sydney, Shanghai}
\* identifiers a caller may pass
ZoneIds == KnownZones \cup {Olympus}

\* the n-th (1-based) Sunday of month m of year y, as a day of the month
NthSunday(y, m, n) ==
    LET w1 == weekday(Date(y, m, 1))
    IN  1 + ((6 - w1) % 7) + 7 * (n - 1)

\* the last Sunday of month m of year y, as a day of the month
LastSunday(y, m) ==
    LET len == monthlen(y, m)
        wl  == weekday(Date(y, m, len))
    IN  len - ((wl + 1) % 7)

\* minutes since 0001-01-01T00:00Z of the UTC instant date@minuteOfDay
Instant(d, minuteOfDay) == (toordinal(d) - 1) * 1440 + minuteOfDay

\* UTC offset, in minutes, of a known zone at a UTC instant of year y
\* (IANA rules in force in 2025 and later):
\*   Europe/Paris      +01:00, +02:00 from the last Sunday of March 01:00Z
\*                     to the last Sunday of October 01:00Z
\*   America/New_York  -05:00, -04:00 from the second Sunday of March 07:00Z
\*                     to the first Sunday of November 06:00Z
\*   Australia/Sydney  +10:00, +11:00 until the first Sunday of April
\*                     (Saturday 16:00Z) and from the first Sunday of
\*                     October (Saturday 16:00Z)
\*   Asia/Shanghai     +08:00 all year
utcoffset(tz, d, minuteOfDay) ==
    LET y == d.year
        t == Instant(d, minuteOfDay)
    IN  CASE tz = Paris ->
               IF  /\ t >= Instant(Date(y, 3, LastSunday(y, 3)), 60)
                   /\ t <  Instant(Date(y, 10, LastSunday(y, 10)), 60)
               THEN 120 ELSE 60
          [] tz = NewYork ->
               IF  /\ t >= Instant(Date(y, 3, NthSunday(y, 3, 2)), 420)
                   /\ t <  Instant(Date(y, 11, NthSunday(y, 11, 1)), 360)
               THEN 0 - 240 ELSE 0 - 300
          [] tz = Sydney ->
               IF  /\ t >= Instant(Date(y, 4, NthSunday(y, 4, 1)), 960 - 1440)
                   /\ t <  Instant(Date(y, 10, NthSunday(y, 10, 1)), 960 - 1440)
               THEN 600 ELSE 660
          [] tz = Shanghai -> 480

\* utc_time.astimezone(pytz.timezone(tz)): the local wall-clock hour and
\* minute of the UTC instant date@hour:minute
astimezone(tz, d, hour, minute) ==
    LET local == (hour * 60 + minute + utcoffset(tz, d, hour * 60 + minute)) % 1440
    IN  [hour |-> local \div 60, minute |-> local % 60]

\* strftime('%H:%M'): the four digits of a zero-padded hour and minute
strftime(hour, minute) ==
    <<hour \div 10, hour % 10, minute \div 10, minute % 10>>

\* tz.split('/')[-1]
ShortName(tz) == tz[Len(tz)]

\* ------------------------------------------------------------------ state
VARIABLES
    timezones,        \* find_suitable_meeting_times: argument timezones
    date,             \* find_suitable_meeting_times: argument date
    slot,             \* position of the (hour, minute) loops: 2 * hour + minute / 30
    suitable_times,   \* the local list suitable_times
    pc,               \* "loop", "returned" or "raised"; "off" when not called
    result,           \* the value returned to the caller, <<>> before the return
    error,            \* the exception that left the function, "" if none
    year,             \* get_month_matrix: argument year (selected_year)
    month,            \* get_month_matrix: argument month (selected_month)
    selected_countries, \* the countries of the sidebar multiselect
    month_dates,      \* the list get_month_matrix returned
    i,                \* number of cells the heatmap loop has handled
    week_colors,      \* heatmap loop: colours of the week being filled
    week_labels,      \* heatmap loop: labels of the week being filled
    z_vals,           \* heatmap: the finished rows of colours
    annotations,      \* heatmap: the finished rows of labels
    gpc,              \* "call", "cells", "drawn" or "raised"; "off" when not run
    gerror            \* the exception that left get_month_matrix, "" if none

findvars == <<timezones, date, slot, suitable_times, pc, result, error>>
gridvars == <<year, month, selected_countries, month_dates, i, week_colors,
              week_labels, z_vals, annotations, gpc, gerror>>
vars == <<timezones, date, slot, suitable_times, pc, result, error,
          year, month, selected_countries, month_dates, i, week_colors,
          week_labels, z_vals, annotations, gpc, gerror>>

\* sequences over S of length 0 .. n
SeqUpTo(S, n) == UNION {[1..k -> S] : k \in 0..n}

\* the dates the sweep is run for: mid-month days as the page passes them
\* (the 15th), and the day Europe/Paris changes to summer time
MeetingDates ==
    {Date(FirstYear, 1, 15), Date(FirstYear, 6, 15),
     Date(FirstYear, 3, LastSunday(FirstYear, 3))}

\* --------------------------------------- find_suitable_meeting_times
NumSlots == 48

HourOf(s) == s \div 2

\* the minute loop run over [30, 0]
MinuteOfSwapped(s) == ((s + 1) % 2) * 30

MinuteOf(s) == (s % 2) * 30

\* the window test with "and" for "or"
OutOfBoundsAnd(local_time) == local_time.hour < 8 /\ local_time.hour > 18

\* the window test with the closing hour excluded
OutOfBoundsStrict(local_time) == local_time.hour < 8 \/ local_time.hour >= 18

\* the window test of one local time
OutOfBounds(local_time) == local_time.hour < 8 \/ local_time.hour > 18

\* the zone loop leaving at the first zone out of the window, before the
\* zones after it are resolved
RECURSIVE ZoneLoopBreak(_, _, _, _, _, _)
ZoneLoopBreak(tzs, d, hour, minute, k, acc) ==
    IF k > Len(tzs) THEN acc
    ELSE IF tzs[k] \notin KnownZones
         THEN [acc EXCEPT !.raised = TRUE]
         ELSE LET local_time == astimezone(tzs[k], d, hour, minute)
                  entry == [name |-> ShortName(tzs[k]),
                            time |-> strftime(local_time.hour, local_time.minute)]
              IN  IF local_time.hour < 8 \/ local_time.hour > 18
                  THEN [raised |-> FALSE, all_in_bounds |-> FALSE,
                        local_times |-> Append(acc.local_times, entry)]
                  ELSE ZoneLoopBreak(tzs, d, hour, minute, k + 1,
                         [raised |-> FALSE,
                          all_in_bounds |-> acc.all_in_bounds,
                          local_times |-> Append(acc.local_times, entry)])

\* the loop "for tz in timezones" of one slot, from position k on; acc is
\* [raised, all_in_bounds, local_times]
RECURSIVE ZoneLoop(_, _, _, _, _, _)
ZoneLoop(tzs, d, hour, minute, k, acc) ==
    IF k > Len(tzs) THEN acc
    ELSE IF tzs[k] \notin KnownZones
         THEN [acc EXCEPT !.raised = TRUE]
         ELSE LET local_time == astimezone(tzs[k], d, hour, minute)
                  entry == [name |-> ShortName(tzs[k]),
                            time |-> strftime(local_time.hour, local_time.minute)]
              IN  ZoneLoop(tzs, d, hour, minute, k + 1,
                     [raised |-> FALSE,
                      all_in_bounds |-> IF OutOfBounds(local_time)
                                        THEN FALSE ELSE acc.all_in_bounds,
                      local_times |-> Append(acc.local_times, entry)])

\* one pass of the body of the hour and minute loops
LoopBody ==
    /\ pc = "loop"
    /\ slot < NumSlots
    /\ LET hour == HourOf(slot)
           minute == MinuteOf(slot)
           r == ZoneLoop(timezones, date, hour, minute, 1,
                         [raised |-> FALSE, all_in_bounds |-> TRUE,
                          local_times |-> <<>>])
       IN  IF r.raised
           THEN /\ pc' = "raised"
                /\ error' = "UnknownTimeZoneError"
                /\ UNCHANGED <<slot, suitable_times>>
           ELSE /\ suitable_times' =
                      IF r.all_in_bounds
                      THEN Append(suitable_times,
                                  [utc |-> strftime(hour, minute),
                                   local_times |-> r.local_times])
                      ELSE suitable_times
                /\ slot' = slot + 1
                /\ UNCHANGED <<pc, error>>
    /\ UNCHANGED <<timezones, date, result>>
    /\ UNCHANGED gridvars

\* return suitable_times
Return ==
    /\ pc = "loop"
    /\ slot = NumSlots
    /\ pc' = "returned"
    /\ result' = suitable_times
    /\ UNCHANGED <<timezones, date, slot, suitable_times, error>>
    /\ UNCHANGED gridvars

\* ------------------------------------------------------ get_month_matrix
\* calendar.monthrange(year, month) for a month in 1..12: the weekday of
\* the 1st and the number of days
monthrange(y, m) == <<weekday(Date(y, m, 1)), monthlen(y, m)>>

\* the month's dates with the leading days only: the last week is left
\* incomplete
itermonthdatesNoTail(y, m) ==
    LET day1 == monthrange(y, m)[1]
        ndays == monthrange(y, m)[2]
        days_before == day1 % 7
        p == prevmonth(y, m)
        end == monthlen(p[1], p[2]) + 1
    IN  [k \in 1..days_before |-> Date(p[1], p[2], end - days_before + k - 1)]
          \o [k \in 1..ndays |-> Date(y, m, k)]

\* list(calendar.Calendar(firstweekday=0).itermonthdates(year, month)) for
\* a month in 1..12: the days of the previous month that complete the first
\* week, the days of the month, the days of the next month that complete
\* the last week
itermonthdates(y, m) ==
    LET firstweekday == 0
        day1 == monthrange(y, m)[1]
        ndays == monthrange(y, m)[2]
        days_before == (day1 - firstweekday) % 7
        days_after == (firstweekday - day1 - ndays) % 7
        p == prevmonth(y, m)
        n == nextmonth(y, m)
        end == monthlen(p[1], p[2]) + 1
    IN  [k \in 1..days_before |-> Date(p[1], p[2], end - days_before + k - 1)]
          \o [k \in 1..ndays |-> Date(y, m, k)]
          \o [k \in 1..days_after |-> Date(n[1], n[2], k)]

\* get_month_matrix answering a month outside 1..12 with an empty grid
GetMonthMatrixLenient ==
    /\ gpc = "call"
    /\ gpc' = "cells"
    /\ month_dates' = IF month < 1 \/ month > 12
                      THEN <<>> ELSE itermonthdates(year, month)
    /\ UNCHANGED <<year, month, selected_countries, i, week_colors,
                   week_labels, z_vals, annotations, gerror>>
    /\ UNCHANGED findvars

\* get_month_matrix(selected_year, selected_month); monthrange raises
\* IllegalMonthError for a month outside 1..12
GetMonthMatrix ==
    /\ gpc = "call"
    /\ IF month < 1 \/ month > 12
       THEN /\ gpc' = "raised"
            /\ gerror' = "IllegalMonthError"
            /\ UNCHANGED month_dates
       ELSE /\ gpc' = "cells"
            /\ month_dates' = itermonthdates(year, month)
            /\ UNCHANGED gerror
    /\ UNCHANGED <<year, month, selected_countries, i, week_colors,
                   week_labels, z_vals, annotations>>
    /\ UNCHANGED findvars

\* ------------------------------------------------------ calendar heatmap
Countries == {"France", "Germany"}

\* rows (Country, Date) of the holiday table load_data returns
df ==
    {[Country |-> "France",  Date |-> Date(FirstYear, 1, 1)],
     [Country |-> "France",  Date |-> Date(FirstYear, 5, 1)],
     [Country |-> "France",  Date |-> Date(FirstYear, 7, 14)],
     [Country |-> "France",  Date |-> Date(FirstYear, 12, 25)],
     [Country |-> "France",  Date |-> Date(FirstYear + 1, 1, 1)],
     [Country |-> "Germany", Date |-> Date(FirstYear, 1, 1)],
     [Country |-> "Germany", Date |-> Date(FirstYear, 5, 1)],
     [Country |-> "Germany", Date |-> Date(FirstYear, 10, 3)],
     [Country |-> "Germany", Date |-> Date(FirstYear, 12, 25)],
     [Country |-> "Germany", Date |-> Date(FirstYear, 12, 26)],
     [Country |-> "Germany", Date |-> Date(FirstYear + 1, 1, 1)]}

\* the dates of df_month: rows of the selected year, month and countries
holiday_dates ==
    {r.Date : r \in {q \in df : /\ q.Date.year = year
                               /\ q.Date.month = month
                               /\ q.Country \in selected_countries}}

\* str(d.day): the decimal digits of a day of the month
str(n) == IF n < 10 THEN <<n>> ELSE <<n \div 10, n % 10>>

\* the colours of holidays and free days exchanged
color_valSwapped(d) ==
    IF d.month = month
    THEN IF d \notin holiday_dates THEN 0 ELSE 1
    ELSE 0 - 1

\* the colour and label the loop gives the day d
color_val(d) ==
    IF d.month = month
    THEN IF d \notin holiday_dates THEN 1 ELSE 0
    ELSE 0 - 1

label(d) == IF d.month = month THEN str(d.day) ELSE <<>>

\* one pass of "for i, d in enumerate(month_dates)"
HeatmapCell ==
    /\ gpc = "cells"
    /\ i < Len(month_dates)
    /\ LET d == month_dates[i + 1]
           colors == Append(week_colors, color_val(d))
           labels == Append(week_labels, label(d))
       IN  IF (i + 1) % 7 = 0
           THEN /\ z_vals' = Append(z_vals, colors)
                /\ annotations' = Append(annotations, labels)
                /\ week_colors' = <<>>
                /\ week_labels' = <<>>
           ELSE /\ week_colors' = colors
                /\ week_labels' = labels
                /\ UNCHANGED <<z_vals, annotations>>
    /\ i' = i + 1
    /\ UNCHANGED <<year, month, selected_countries, month_dates, gpc, gerror>>
    /\ UNCHANGED findvars

\* the loop is over; the figure is drawn from z_vals and annotations
HeatmapDrawn ==
    /\ gpc = "cells"
    /\ i = Len(month_dates)
    /\ gpc' = "drawn"
    /\ UNCHANGED <<year, month, selected_countries, month_dates, i,
                   week_colors, week_labels, z_vals, annotations, gerror>>
    /\ UNCHANGED findvars

FindOff ==
    /\ timezones = <<>> /\ date = Date(FirstYear, 1, 15)
    /\ slot = 0 /\ suitable_times = <<>>
    /\ pc = "off" /\ result = <<>> /\ error = ""

\* the month arguments get_month_matrix is called with
MonthArgs == 0..13

InitGrid ==
    /\ year \in Years
    /\ month \in MonthArgs
    /\ selected_countries \in (SUBSET Countries) \ {{}}
    /\ month_dates = <<>>
    /\ i = 0
    /\ week_colors = <<>> /\ week_labels = <<>>
    /\ z_vals = <<>> /\ annotations = <<>>
    /\ gpc = "call"
    /\ gerror = ""
    /\ FindOff

NextGrid == GetMonthMatrix \/ HeatmapCell \/ HeatmapDrawn

SpecGrid == InitGrid /\ [][NextGrid]_vars

GridOff ==
    /\ year = FirstYear /\ month = 1 /\ selected_countries = {}
    /\ month_dates = <<>> /\ i = 0
    /\ week_colors = <<>> /\ week_labels = <<>>
    /\ z_vals = <<>> /\ annotations = <<>>
    /\ gpc = "off" /\ gerror = ""

Init ==
    /\ timezones \in SeqUpTo(ZoneIds, MaxZones)
    /\ date \in MeetingDates
    /\ slot = 0
    /\ suitable_times = <<>>
    /\ pc = "loop"
    /\ result = <<>>
    /\ error = ""
    /\ GridOff

Next == LoopBody \/ Return

Spec == Init /\ [][Next]_vars

\* ================================================================ claims
\* the hour and minute a '%H:%M' label shows
LabelHour(t) == t[1] * 10 + t[2]
LabelMinute(t) == t[3] * 10 + t[4]
LabelInstant(t) == LabelHour(t) * 60 + LabelMinute(t)

InWindow(h) == 8 <= h /\ h <= 18

HalfHours == {0, 30}

Labels(cands) == {cands[j].utc : j \in 1..Len(cands)}

\* C1: with a non-empty list of zones, every candidate returned has a local
\* hour in 8..18 in every supplied zone: both the local hour the timezone
\* database gives for the candidate's UTC instant and the hour its
\* local-time label shows.
C1_EveryZoneInWindow ==
    (pc = "returned" /\ timezones # <<>>) =>
        \A j \in 1..Len(result) :
            /\ Len(result[j].local_times) = Len(timezones)
            /\ \A k \in 1..Len(timezones) :
                 /\ InWindow(astimezone(timezones[k], date,
                                        LabelHour(result[j].utc),
                                        LabelMinute(result[j].utc)).hour)
                 /\ InWindow(LabelHour(result[j].local_times[k].time))

\* two different zones, a non-empty answer
C1_Witness ==
    /\ pc = "returned"
    /\ Len(timezones) = 2
    /\ timezones[1] # timezones[2]
    /\ result # <<>>

\* C2: with an empty list of zones the function returns an empty sequence.
C2_EmptyZonesEmptyResult ==
    (pc = "returned" /\ timezones = <<>>) => result = <<>>

\* C3: the candidates are strictly increasing in UTC instant, in the list
\* being built and in the list returned.
C3_StrictlyIncreasing ==
    /\ \A a, b \in 1..Len(suitable_times) :
          a < b => LabelInstant(suitable_times[a].utc)
                     < LabelInstant(suitable_times[b].utc)
    /\ \A a, b \in 1..Len(result) :
          a < b => LabelInstant(result[a].utc) < LabelInstant(result[b].utc)

\* an answer with both minutes of one hour and slots of several hours
C3_Witness ==
    /\ pc = "returned"
    /\ Len(result) >= 3
    /\ \E a \in 1..(Len(result) - 1) :
          /\ LabelHour(result[a].utc) = LabelHour(result[a + 1].utc)
          /\ LabelMinute(result[a].utc) = 0
          /\ LabelMinute(result[a + 1].utc) = 30

HasUnknownZone == \E k \in 1..Len(timezones) : timezones[k] \notin KnownZones

\* C7: when any zone of the list does not resolve, the function never
\* returns: it has not gone past the first slot while it runs, and it ends
\* raised with the unknown-timezone error and no value.
C7_UnknownZoneRaises ==
    HasUnknownZone =>
        /\ pc \in {"loop", "raised"}
        /\ result = <<>>
        /\ pc = "loop" => (slot = 0 /\ error = "")
        /\ pc = "raised" => error = "UnknownTimeZoneError"

\* raised on an unknown second zone although the first zone is out of the
\* window at the slot being evaluated
C7_Witness ==
    /\ pc = "raised"
    /\ Len(timezones) = 2
    /\ timezones[1] \in KnownZones
    /\ timezones[2] \notin KnownZones
    /\ ~InWindow(astimezone(timezones[1], date, HourOf(slot), 0).hour)

\* C8: each zone of the input appears once in the local-time list of every
\* candidate returned, also when the input repeats a zone.
C8_EachZoneOnce ==
    pc = "returned" =>
        \A j \in 1..Len(result) : \A k \in 1..Len(timezones) :
            Cardinality({n \in 1..Len(result[j].local_times) :
                            result[j].local_times[n].name
                              = ShortName(timezones[k])}) = 1

\* C10: with a non-empty list of zones all 48 half-hour instants are
\* evaluated, and an instant is returned iff every zone's local hour is in
\* 8..18, whatever the local minute; for Europe/Paris in June 09:00 UTC is
\* returned and 22:00 UTC is not.
C10_ReturnedIffAllInWindow ==
    (pc = "returned" /\ timezones # <<>>) =>
        /\ slot = 48
        /\ Labels(result) \subseteq
              {strftime(h, m) : h \in 0..23, m \in HalfHours}
        /\ \A h \in 0..23, m \in HalfHours :
              (strftime(h, m) \in Labels(result))
                <=> \A k \in 1..Len(timezones) :
                       InWindow(astimezone(timezones[k], date, h, m).hour)
        /\ (timezones = <<Paris>> /\ date = Date(2025, 6, 15)) =>
              /\ <<0, 9, 0, 0>> \in Labels(result)
              /\ <<2, 2, 0, 0>> \notin Labels(result)

\* Europe/Paris in June: the slot at 18:30 local time is in the answer and
\* the slot at 07:30 local time is not
C10_Witness ==
    /\ pc = "returned"
    /\ timezones = <<Paris>>
    /\ date = Date(2025, 6, 15)
    /\ \E j \in 1..Len(result) :
          /\ result[j].utc = <<1, 6, 3, 0>>
          /\ result[j].local_times[1].time = <<1, 8, 3, 0>>
    /\ <<0, 5, 3, 0>> \notin Labels(result)

\* ------------------------------------------------------------ month grid
RECURSIVE Flatten(_)
Flatten(rows) == IF rows = <<>> THEN <<>> ELSE rows[1] \o Flatten(Tail(rows))

\* number of positions of the grid holding the date d
Occurrences(d) ==
    Cardinality({k \in 1..Len(month_dates) : month_dates[k] = d})

GridReturned == gpc \in {"cells", "drawn"}

\* C4: the grid's length is a multiple of 7 and every date from the 1st to
\* the last day of the month is in it exactly once; when the heatmap loop
\* is over, every cell of the grid is in a finished row of 7 and no cell is
\* left in the week being filled.
C4_WholeWeeksCoverMonth ==
    /\ GridReturned =>
          /\ Len(month_dates) % 7 = 0
          /\ \A dd \in 1..31 :
                Occurrences(Date(year, month, dd))
                  = IF dd <= monthlen(year, month) THEN 1 ELSE 0
    /\ gpc = "drawn" =>
          /\ week_colors = <<>> /\ week_labels = <<>>
          /\ \A r \in 1..Len(z_vals) : Len(z_vals[r]) = 7
          /\ \A r \in 1..Len(annotations) : Len(annotations[r]) = 7
          /\ Len(Flatten(z_vals)) = Len(month_dates)
          /\ Len(Flatten(annotations)) = Len(month_dates)

\* the drawn heatmap of a leap-year February
C4_Witness ==
    /\ gpc = "drawn"
    /\ month = 2
    /\ Occurrences(Date(year, 2, 29)) = 1
    /\ Len(z_vals) = 5

\* C5: the grid is a run of consecutive dates from the Monday on or before
\* the 1st to the Sunday on or after the last day of the month; for
\* (2025, 2) it runs from 2025-01-27 to 2025-03-02 and has 35 dates.
C5_MondayToSunday ==
    GridReturned =>
        LET first == month_dates[1]
            last == month_dates[Len(month_dates)]
            day1 == Date(year, month, 1)
            dayN == Date(year, month, monthlen(year, month))
        IN  /\ Len(month_dates) > 0
            /\ \A k \in 1..(Len(month_dates) - 1) :
                  toordinal(month_dates[k + 1]) = toordinal(month_dates[k]) + 1
            /\ weekday(first) = 0
            /\ toordinal(first) <= toordinal(day1)
            /\ toordinal(day1) - toordinal(first) < 7
            /\ weekday(last) = 6
            /\ toordinal(last) >= toordinal(dayN)
            /\ toordinal(last) - toordinal(dayN) < 7
            /\ (year = 2025 /\ month = 2) =>
                  /\ first = Date(2025, 1, 27)
                  /\ last = Date(2025, 3, 2)
                  /\ Len(month_dates) = 35

\* the grid of January 2026, which starts in December 2025
C5_Witness ==
    /\ GridReturned
    /\ year = FirstYear + 1
    /\ month = 1
    /\ month_dates[1].year = FirstYear
    /\ month_dates[1].month = 12
    /\ month_dates[Len(month_dates)].month = 2

\* the cells handled so far, finished rows first
CellColors == Flatten(z_vals) \o week_colors
CellLabels == Flatten(annotations) \o week_labels

\* C6: a handled day whose month differs from the requested month is
\* padding (colour -1, empty label); a day of the month is a holiday
\* (colour 0) if it is in the holiday set and free (colour 1) if not.
C6_DayClassification ==
    GridReturned =>
        /\ Len(CellColors) = i
        /\ Len(CellLabels) = i
        /\ \A j \in 1..i :
              LET d == month_dates[j]
              IN  IF d.month # month
                  THEN CellColors[j] = 0 - 1 /\ CellLabels[j] = <<>>
                  ELSE /\ d \in holiday_dates => CellColors[j] = 0
                       /\ d \notin holiday_dates => CellColors[j] = 1

\* a drawn heatmap with padding days, holidays and free days
C6_Witness ==
    /\ gpc = "drawn"
    /\ \E a, b, c \in 1..i :
          /\ CellColors[a] = 0 - 1
          /\ CellColors[b] = 0
          /\ CellColors[c] = 1

\* C9: for a month outside 1..12 get_month_matrix raises the illegal-month
\* error and no grid is returned.
C9_IllegalMonthRaises ==
    (gpc # "call" /\ (month < 1 \/ month > 12)) =>
        /\ gpc = "raised"
        /\ gerror = "IllegalMonthError"
        /\ month_dates = <<>>
        /\ i = 0

\* the calls with month 0 and month 13 have raised
C9_Witness ==
    /\ gpc = "raised"
    /\ month \in {0, 13}
    /\ gerror = "IllegalMonthError"
====
